---- MODULE Spec2Model ----
(***************************************************************************)
(* Smartbin: the upload/analyze/display controller (the Home component of  *)
(* src/src/app/page.tsx and its later revision src/unnamed/part_001) and   *)
(* the analysis relay (POST of src/src/app/api/analyze/route.ts).          *)
(*                                                                         *)
(* Encoding of JavaScript values:                                          *)
(*   null / undefined   the records Null / Undefined                       *)
(*   an object          a function from field names to values              *)
(*   a measured number  an integer count of hundredths (95.5 is 9550,      *)
(*                      0.85 is 85); file sizes and HTTP statuses are      *)
(*                      plain integers                                     *)
(***************************************************************************)
EXTENDS Integers, Sequences, FiniteSets, TLC

VARIABLES
  page,            \* which of the two pages is deployed
  selectedOption, uploadedFile, isAnalyzing, analysisResult,   \* the useState cells of Home
  calls,           \* the analyzeImage invocations, in order of their click
  lastOutcome,     \* how the last settled invocation ended: ok, http or transport
  reqs,            \* the requests sent to the relay, in order of their sending
  bar              \* the last rendering of a ProgressBar: its props and its output

vars ==
  <<page, selectedOption, uploadedFile, isAnalyzing, analysisResult, calls, lastOutcome, reqs, bar>>

(* ------------------------------ bounds -------------------------------- *)

\* analyzeImage calls issued in one session
MaxCalls == 2
\* requests the relay receives in one run (the controller's and other clients')
MaxReqs == 2
\* how far below 0 and above 100 the percentages given to ProgressBar range
PercentageSpan == 5

(* --------------------------- JavaScript values ------------------------ *)

Null == [js |-> "null"]
Undefined == [js |-> "undefined"]

\* !v for the values that occur here: null, undefined and objects
Truthy(v) == v # Null /\ v # Undefined

Has(obj, k) == Truthy(obj) /\ k \in DOMAIN obj

\* obj.k : undefined when the object has no such field
Get(obj, k) == IF Has(obj, k) THEN obj[k] ELSE Undefined

\* {...a, ...b} : the later spread overrides the earlier fields; spreading null adds nothing
Spread(a, b) ==
  IF Truthy(b) THEN [k \in DOMAIN a \cup DOMAIN b |-> IF k \in DOMAIN b THEN b[k] ELSE a[k]]
  ELSE a

\* Math.floor(Math.random() * n), with Math.random() = r / 100
FloorRandom(r, n) == (r * n) \div 100

\* the Math.random() draws the model takes, in hundredths
RandomDraws == {30, 95}

(* ------------------------------- inputs ------------------------------- *)

\* the two pages of the repository
Pages == {"page.tsx", "part_001"}

Options == {"segregation", "fullness"}
NoOption == "null"

FileA == [name |-> "a.jpg", size |-> 2, bytes |-> <<1, 2>>]
FileB == [name |-> "b.png", size |-> 1, bytes |-> <<3>>]
FileC == [name |-> "c.gif", size |-> 3, bytes |-> <<255, 0, 77>>]
Files == {FileA, FileB, FileC}

\* form fields as formData.get returns them: null when absent, a string, a File
Str(s) == [str |-> s]
FileFields == {Null, Str(""), Str("abc"), FileA}
TypeFields == {Null, Str(""), Str("unknown"), Str("segregation"), Str("fullness"), FileA}

\* a request body that request.formData() cannot parse
Unparsable == [parsed |-> FALSE, file |-> Null, type |-> Null]
Forms == {Unparsable} \cup [parsed : {TRUE}, file : FileFields, type : TypeFields]

\* bodies of the external service: the three historical schemas, and one that
\* reuses the relay's own field names
BodyBinAlert == [status |-> "Success", message |-> "done", bin_level |-> 9550, alert |-> TRUE]
BodyBinNoAlert == [status |-> "Success", bin_level |-> 9500]
BodyBinLow == [bin_level |-> 4000, alert |-> FALSE]
BodyFlatSeg == [status |-> "Success", segregated_category |-> "PLASTIC", confidence |-> 85]
BodyRich == [result |-> [wasteType |-> "Plastic", confidence |-> 9200]]
BodyCollide == [success |-> FALSE, fileName |-> "evil.png", fileSize |-> 0, analysisType |-> "unknown"]
BodyFlatFill == [status |-> "Success", segregated_category |-> "GLASS", fill_percentage |-> 7000]
BodyRichTop == [wasteType |-> "Paper", confidence |-> 8800, fullnessLevel |-> 6000]
JsonObjects ==
  {BodyBinAlert, BodyBinNoAlert, BodyBinLow, BodyFlatSeg, BodyFlatFill, BodyRich, BodyRichTop,
   BodyCollide}

\* what the external endpoint does with a call: the fetch rejects, or it answers
\* with a status and a body that is a JSON object, JSON null, or not JSON
\* (text is the raw body as character codes, read only on a non-2xx answer)
NoUp == [kind |-> "none"]
NetFail == [kind |-> "netfail"]
Answer(s, j, b, t) == [kind |-> "answer", status |-> s, json |-> j, body |-> b, text |-> t]
UpOutcomes ==
  {NetFail, Answer(500, FALSE, Null, <<7, 7, 7>>),
   Answer(404, TRUE, [error |-> "not found"], <<8, 8>>),
   Answer(200, FALSE, Null, <<7>>), Answer(200, TRUE, Null, <<9>>)}
  \cup {Answer(200, TRUE, b, <<9, 9>>) : b \in JsonObjects}

\* Response.ok
Ok(status) == status \in 200..299

(* ------------------- the relay: POST of route.ts ---------------------- *)

\* NextResponse.json(body, {status})
Json(status, body) == [status |-> status, body |-> body]
NoResp == Json(0, Null)

\* !field for a form field: null and the empty string are falsy
FieldTruthy(f) == f # Null /\ f # Str("")

\* errorBody.substring(0, 200)
SubstringLimit == 200
Substring(t) == SubSeq(t, 1, IF Len(t) < SubstringLimit THEN Len(t) ELSE SubstringLimit)

\* Failed with the details left out of the body
FailedErrorOnly(details) == Json(500, [error |-> "Failed to analyze image"])

\* the catch block: every thrown error becomes a 500 with error and details
\* (details, a template string, is kept as the tuple of its parts)
Failed(details) == Json(500, [error |-> "Failed to analyze image", details |-> details])

ValidTypes == {Str("segregation"), Str("fullness")}

\* the alphabet of Buffer.toString('base64'), and its padding character
Alphabet ==
  << "A", "B", "C", "D", "E", "F", "G", "H", "I", "J", "K", "L", "M", "N", "O", "P",
     "Q", "R", "S", "T", "U", "V", "W", "X", "Y", "Z", "a", "b", "c", "d", "e", "f",
     "g", "h", "i", "j", "k", "l", "m", "n", "o", "p", "q", "r", "s", "t", "u", "v",
     "w", "x", "y", "z", "0", "1", "2", "3", "4", "5", "6", "7", "8", "9", "+", "/" >>
Pad == "="
Sextet(n) == Alphabet[n + 1]

\* Base64 that drops a trailing group of one or two bytes instead of padding it
RECURSIVE Base64Truncating(_)
Base64Truncating(bytes) ==
  IF Len(bytes) < 3 THEN <<>>
  ELSE LET n == bytes[1] * 65536 + bytes[2] * 256 + bytes[3]
       IN << Sextet(n \div 262144), Sextet((n \div 4096) % 64),
             Sextet((n \div 64) % 64), Sextet(n % 64) >>
            \o Base64Truncating(SubSeq(bytes, 4, Len(bytes)))

\* buffer.toString('base64'): three bytes give four characters, a last group of
\* one or two bytes gives two or three characters and padding
RECURSIVE Base64(_)
Base64(bytes) ==
  IF Len(bytes) = 0 THEN <<>>
  ELSE IF Len(bytes) = 1
    THEN LET n == bytes[1] * 65536
         IN << Sextet(n \div 262144), Sextet((n \div 4096) % 64), Pad, Pad >>
  ELSE IF Len(bytes) = 2
    THEN LET n == bytes[1] * 65536 + bytes[2] * 256
         IN << Sextet(n \div 262144), Sextet((n \div 4096) % 64),
               Sextet((n \div 64) % 64), Pad >>
  ELSE LET n == bytes[1] * 65536 + bytes[2] * 256 + bytes[3]
       IN << Sextet(n \div 262144), Sextet((n \div 4096) % 64),
             Sextet((n \div 64) % 64), Sextet(n % 64) >>
            \o Base64(SubSeq(bytes, 4, Len(bytes)))

\* the fetch to the external endpoint: its URL, its headers and its JSON body
EXTERNAL_API_ENDPOINT == "https://web-segregation-api-1087940626963.asia-south2.run.app"
NoOut == [url |-> "", method |-> "", contentType |-> "", body |-> Null]
Outbound(form) ==
  [url |-> EXTERNAL_API_ENDPOINT, method |-> "POST", contentType |-> "application/json",
   body |-> [image |-> Base64(form.file.bytes), analysis_type |-> form.type.str]]

\* POSTBeforeFetch with the test of the type against the two recognized values left out
POSTBeforeFetchNoIncludes(form) ==
  IF ~form.parsed THEN Failed(<<"Failed to parse body as FormData">>)
  ELSE IF ~FieldTruthy(form.file) THEN Json(400, [error |-> "No file uploaded"])
  ELSE IF ~FieldTruthy(form.type) THEN Json(400, [error |-> "Invalid analysis type"])
  ELSE IF form.file \notin Files THEN Failed(<<"file.arrayBuffer is not a function">>)
  ELSE NoResp

\* POSTBeforeFetch with the test of the file left out: null.arrayBuffer() throws
POSTBeforeFetchNoFileCheck(form) ==
  IF ~form.parsed THEN Failed(<<"Failed to parse body as FormData">>)
  ELSE IF ~FieldTruthy(form.type) \/ form.type \notin ValidTypes
    THEN Json(400, [error |-> "Invalid analysis type"])
  ELSE IF form.file \notin Files THEN Failed(<<"file.arrayBuffer is not a function">>)
  ELSE NoResp

\* POST up to the fetch: a response, or NoResp when the external call is issued
POSTBeforeFetch(form) ==
  IF ~form.parsed THEN Failed(<<"Failed to parse body as FormData">>)
  ELSE IF ~FieldTruthy(form.file) THEN Json(400, [error |-> "No file uploaded"])
  ELSE IF ~FieldTruthy(form.type) \/ form.type \notin ValidTypes
    THEN Json(400, [error |-> "Invalid analysis type"])
  ELSE IF form.file \notin Files THEN Failed(<<"file.arrayBuffer is not a function">>)
  ELSE NoResp

\* POSTAfterFetch keeping a count of the requests served so far in its response
POSTAfterFetchCounting(form, up) ==
  IF up.kind = "netfail" THEN Failed(<<"fetch failed">>)
  ELSE IF ~Ok(up.status)
    THEN Failed(<<"External API error! Status: ", up.status, ". Details: ", Substring(up.text)>>)
  ELSE IF ~up.json THEN Failed(<<"Unexpected token in JSON">>)
  ELSE Json(200, Spread([success |-> TRUE, fileName |-> form.file.name,
                         fileSize |-> form.file.size, analysisType |-> form.type.str,
                         served |-> Cardinality({r \in DOMAIN reqs : reqs[r].st = "responded"})],
                        up.body))

\* POSTAfterFetch with the test of response.ok left out
POSTAfterFetchNoOkCheck(form, up) ==
  IF up.kind = "netfail" THEN Failed(<<"fetch failed">>)
  ELSE IF ~up.json THEN Failed(<<"Unexpected token in JSON">>)
  ELSE Json(200, Spread([success |-> TRUE, fileName |-> form.file.name,
                         fileSize |-> form.file.size, analysisType |-> form.type.str],
                        up.body))

\* POSTAfterFetch with the upstream body spread first and the metadata after it
POSTAfterFetchMetadataLast(form, up) ==
  IF up.kind = "netfail" THEN Failed(<<"fetch failed">>)
  ELSE IF ~Ok(up.status)
    THEN Failed(<<"External API error! Status: ", up.status, ". Details: ", Substring(up.text)>>)
  ELSE IF ~up.json THEN Failed(<<"Unexpected token in JSON">>)
  ELSE Json(200, Spread(IF Truthy(up.body) THEN up.body ELSE <<>>,
                        [success |-> TRUE, fileName |-> form.file.name,
                         fileSize |-> form.file.size, analysisType |-> form.type.str]))

\* POST from the settled fetch to its response
POSTAfterFetch(form, up) ==
  IF up.kind = "netfail" THEN Failed(<<"fetch failed">>)
  ELSE IF ~Ok(up.status)
    THEN Failed(<<"External API error! Status: ", up.status, ". Details: ", Substring(up.text)>>)
  ELSE IF ~up.json THEN Failed(<<"Unexpected token in JSON">>)
  ELSE Json(200, Spread([success |-> TRUE, fileName |-> form.file.name,
                         fileSize |-> form.file.size, analysisType |-> form.type.str],
                        up.body))

NewReq(form, origin) ==
  [form |-> form, origin |-> origin, st |-> "sent", upCalls |-> 0, out |-> NoOut,
   up |-> NoUp, resp |-> NoResp]

\* a client other than the page posts a form to the relay
DirectPost(form) ==
  /\ Len(reqs) < MaxReqs
  /\ reqs' = Append(reqs, NewReq(form, 0))
  /\ UNCHANGED <<page, selectedOption, uploadedFile, isAnalyzing, analysisResult, calls, lastOutcome, bar>>

\* the handler runs to its first response or to the external fetch
RelayHandle(r) ==
  /\ reqs[r].st = "sent"
  /\ LET resp == POSTBeforeFetch(reqs[r].form)
     IN reqs' = IF resp.status = NoResp.status
                THEN [reqs EXCEPT ![r].st = "upstream", ![r].upCalls = @ + 1,
                                  ![r].out = Outbound(reqs[r].form)]
                ELSE [reqs EXCEPT ![r].st = "responded", ![r].resp = resp]
  /\ UNCHANGED <<page, selectedOption, uploadedFile, isAnalyzing, analysisResult, calls, lastOutcome, bar>>

\* the external fetch settles and the handler runs to its response
RelaySettle(r, up) ==
  /\ reqs[r].st = "upstream"
  /\ reqs' = [reqs EXCEPT ![r].st = "responded", ![r].up = up,
                          ![r].resp = POSTAfterFetch(reqs[r].form, up)]
  /\ UNCHANGED <<page, selectedOption, uploadedFile, isAnalyzing, analysisResult, calls, lastOutcome, bar>>

(* ------------- the controller: Home of page.tsx / part_001 ------------ *)

\* what the page renders (the conditions are the same in both pages)
OptionCardsShown == selectedOption = NoOption
UploadSectionShown == selectedOption # NoOption
\* AnalyzeButtonShown with the test of analysisResult left out
AnalyzeButtonShownWithResult ==
  UploadSectionShown /\ Truthy(uploadedFile) /\ ~isAnalyzing

\* AnalyzeButtonShown with the test of isAnalyzing left out
AnalyzeButtonShownWhileAnalyzing ==
  UploadSectionShown /\ Truthy(uploadedFile) /\ ~Truthy(analysisResult)

AnalyzeButtonShown ==
  UploadSectionShown /\ Truthy(uploadedFile) /\ ~isAnalyzing /\ ~Truthy(analysisResult)
LoadingShown == UploadSectionShown /\ isAnalyzing
ResultsShown == UploadSectionShown /\ Truthy(analysisResult)

\* part_001: const isAlert = analysisResult?.alert ?? false
IsAlert == IF Has(analysisResult, "alert") THEN analysisResult.alert ELSE FALSE

\* part_001: the fill-level box, with its alert banner when isAlert
FullnessPanelShown ==
  page = "part_001" /\ ResultsShown /\ selectedOption = "fullness"
    /\ Has(analysisResult, "bin_level")
AlertBannerShown == FullnessPanelShown /\ IsAlert

\* Number.prototype.toFixed(1) of a value held in hundredths: rounded to tenths
ToFixed(h) == LET tenths == (h + 5) \div 10 IN <<tenths \div 10, ".", tenths % 10>>

\* part_001: {analysisResult.bin_level.toFixed(1)}% Full
FillLabel ==
  IF FullnessPanelShown THEN <<ToFixed(analysisResult.bin_level), "% Full">> ELSE <<>>

\* part_001: const binLevel = analysisResult?.bin_level ?? 0 (computed, never rendered)
BinLevel == IF Has(analysisResult, "bin_level") THEN analysisResult.bin_level ELSE 0

\* the field of the result each page renders as the fill level and as the category
FillField(pg) == IF pg = "page.tsx" THEN "fullnessLevel" ELSE "bin_level"
CategoryField(pg) == IF pg = "page.tsx" THEN "wasteType" ELSE "segregated_category"

\* the number rendered before "%" on the Confidence line, in hundredths of a
\* percent; empty when the line is absent or reads N/A.
\* page.tsx: {analysisResult.confidence}%, in the segregation panel
\* part_001: confidence ? (confidence * 100).toFixed(1) + "%" : "N/A"
ConfidenceShown ==
  IF ~ResultsShown \/ ~Has(analysisResult, "confidence") THEN {}
  ELSE IF page = "page.tsx"
    THEN IF selectedOption = "segregation" THEN {analysisResult.confidence} ELSE {}
  ELSE IF analysisResult.confidence # 0 THEN {analysisResult.confidence * 100} ELSE {}

\* the three phases of the specification, read off the component's state
Phase ==
  IF isAnalyzing THEN "analyzing"
  ELSE IF Truthy(analysisResult) THEN "resultReady"
  ELSE "idle"

WasteTypes == <<"Plastic", "Paper", "Glass", "Organic", "Metal">>
ToLowerCase(t) ==
  CASE t = "Plastic" -> "plastic" [] t = "Paper" -> "paper" [] t = "Glass" -> "glass"
    [] t = "Organic" -> "organic" [] t = "Metal" -> "metal"

\* the catch block of page.tsx: mock data from two Math.random() draws
FallbackPageTsx(option, r1, r2) ==
  IF option = "segregation"
  THEN LET randomType == WasteTypes[FloorRandom(r1, Len(WasteTypes)) + 1]
           confidence == FloorRandom(r2, 20) + 80
       IN [wasteType |-> randomType,
           confidence |-> confidence * 100,
           recommendations |->
             << <<"This appears to be ", ToLowerCase(randomType), " waste">>,
                <<"Dispose in the ", ToLowerCase(randomType), " recycling bin">>,
                IF confidence > 90 THEN <<"High confidence classification">>
                ELSE <<"Consider manual verification">> >>]
  ELSE LET fullnessLevel == FloorRandom(r1, 100)
       IN [fullnessLevel |-> fullnessLevel * 100,
           status |-> IF fullnessLevel > 80 THEN "Nearly Full"
                      ELSE IF fullnessLevel > 50 THEN "Half Full" ELSE "Not Full",
           details |-> IF fullnessLevel > 80 THEN "Dustbin needs to be emptied soon"
                       ELSE "Dustbin has sufficient space"]

\* the catch block of part_001: fixed mock data, marked as an error
FallbackPart001(option) ==
  IF option = "segregation"
  THEN [status |-> "Error",
        message |-> "Analysis failed, showing mock data for segregation.",
        segregated_category |-> "PLASTIC",
        detected_labels |-> <<"bottle", "plastic", "recyclable">>,
        confidence |-> 85,
        document_id |-> "mock_seg_doc"]
  ELSE [status |-> "Error",
        message |-> "Analysis failed, showing mock data for fullness check.",
        bin_level |-> 9550,
        alert |-> TRUE,
        document_id |-> "mock_fill_doc"]

Fallback(pg, option, r1, r2) ==
  IF pg = "page.tsx" THEN FallbackPageTsx(option, r1, r2) ELSE FallbackPart001(option)

\* what the try block stores from the parsed body of a 2xx response
FromResponse(pg, data) == IF pg = "page.tsx" THEN Get(data, "result") ELSE data

\* a click on one of the two option cards
SetSelectedOption(m) ==
  /\ OptionCardsShown
  /\ selectedOption' = m
  /\ UNCHANGED <<page, uploadedFile, isAnalyzing, analysisResult, calls, lastOutcome, reqs, bar>>

\* HandleFileUpload with the test of file left out
HandleFileUploadUnguarded(f) ==
  /\ UploadSectionShown
  /\ uploadedFile' = f /\ analysisResult' = Null
  /\ UNCHANGED <<page, selectedOption, isAnalyzing, calls, lastOutcome, reqs, bar>>

\* the file input changes; f is Null when the event carries no file
HandleFileUpload(f) ==
  /\ UploadSectionShown
  /\ IF Truthy(f)
     THEN uploadedFile' = f /\ analysisResult' = Null
     ELSE UNCHANGED <<uploadedFile, analysisResult>>
  /\ UNCHANGED <<page, selectedOption, isAnalyzing, calls, lastOutcome, reqs, bar>>

\* ResetUpload that also clears isAnalyzing
ResetUploadStopsAnalyzing ==
  /\ UploadSectionShown
  /\ uploadedFile' = Null
  /\ analysisResult' = Null
  /\ selectedOption' = NoOption
  /\ isAnalyzing' = FALSE
  /\ UNCHANGED <<page, calls, lastOutcome, reqs, bar>>

\* a click on the close button or on "Analyze Another Image"
ResetUpload ==
  /\ UploadSectionShown
  /\ uploadedFile' = Null
  /\ analysisResult' = Null
  /\ selectedOption' = NoOption
  /\ UNCHANGED <<page, isAnalyzing, calls, lastOutcome, reqs, bar>>

NewCall(file, option, req) == [file |-> file, option |-> option, req |-> req, st |-> "pending"]

\* a settled invocation and its consumed request keep no data: nothing reads them again
DoneCall == [file |-> Null, option |-> NoOption, req |-> 0, st |-> "done"]
ClosedReq ==
  [form |-> Unparsable, origin |-> 0, st |-> "closed", upCalls |-> 0, out |-> NoOut,
   up |-> NoUp, resp |-> NoResp]

\* AnalyzeImageStart with the test of uploadedFile and selectedOption left out
AnalyzeImageStartUnguarded ==
  /\ isAnalyzing' = TRUE
  /\ reqs' = Append(reqs, NewReq([parsed |-> TRUE, file |-> uploadedFile,
                                  type |-> Str(selectedOption)], Len(calls) + 1))
  /\ calls' = Append(calls, NewCall(uploadedFile, selectedOption, Len(reqs) + 1))
  /\ UNCHANGED <<page, selectedOption, uploadedFile, analysisResult, lastOutcome, bar>>

\* analyzeImage up to its await of the fetch (file and option are the closure's)
AnalyzeImageStart ==
  IF ~Truthy(uploadedFile) \/ selectedOption = NoOption
  THEN UNCHANGED vars
  ELSE /\ isAnalyzing' = TRUE
       /\ reqs' = Append(reqs, NewReq([parsed |-> TRUE, file |-> uploadedFile,
                                       type |-> Str(selectedOption)], Len(calls) + 1))
       /\ calls' = Append(calls, NewCall(uploadedFile, selectedOption, Len(reqs) + 1))
       /\ UNCHANGED <<page, selectedOption, uploadedFile, analysisResult, lastOutcome, bar>>

\* a click on "Analyze Image"
AnalyzeClick ==
  /\ AnalyzeButtonShown
  /\ Len(calls) < MaxCalls
  /\ AnalyzeImageStart

\* analyzeImage invoked as a function, whatever the page renders, while no
\* other invocation of it is in flight
AnalyzeImageCall ==
  /\ Len(calls) < MaxCalls
  /\ \A c \in DOMAIN calls : calls[c].st # "pending"
  /\ AnalyzeImageStart

\* analyzeImage from the settled fetch to its end: try, catch, finally
Settle(c, outcome, stored) ==
  /\ analysisResult' = stored
  /\ isAnalyzing' = FALSE
  /\ lastOutcome' = outcome
  /\ calls' = [calls EXCEPT ![c] = DoneCall]
  /\ reqs' = [reqs EXCEPT ![calls[c].req] = ClosedReq]
  /\ UNCHANGED <<page, selectedOption, uploadedFile, bar>>

\* the relay's response arrives
AnalyzeImageResponse(c) ==
  /\ calls[c].st = "pending"
  /\ reqs[calls[c].req].st = "responded"
  /\ LET resp == reqs[calls[c].req].resp
     IN IF Ok(resp.status)
        THEN Settle(c, "ok", FromResponse(page, resp.body))
        ELSE \E r1, r2 \in RandomDraws :
               Settle(c, "http", Fallback(page, calls[c].option, r1, r2))

\* the fetch to the relay rejects (the request may or may not have reached it)
AnalyzeImageReject(c) ==
  /\ calls[c].st = "pending"
  /\ \E r1, r2 \in RandomDraws :
       Settle(c, "transport", Fallback(page, calls[c].option, r1, r2))

(* ------------- the mock relay: POST of part_002, lines 3-121 ---------- *)

\* the Math.random() draws of the mock analysis, in hundredths: every one
MockDraws == 0..99

\* the wasteTypes table of performMockAnalysis (confidence in hundredths)
MockWasteTypes ==
  << [type |-> "Plastic", confidence |-> 9200, bin |-> "Blue Recycling Bin",
      tips |-> <<"Remove caps and labels", "Rinse if food contaminated">>],
     [type |-> "Paper", confidence |-> 8800, bin |-> "Green Recycling Bin",
      tips |-> <<"Ensure it's clean and dry", "Remove any plastic components">>],
     [type |-> "Glass", confidence |-> 9500, bin |-> "Brown Recycling Bin",
      tips |-> <<"Remove caps and corks", "Rinse to remove residue">>],
     [type |-> "Organic", confidence |-> 8900, bin |-> "Compost Bin",
      tips |-> <<"Add to compost pile", "Mix with brown materials">>],
     [type |-> "Metal", confidence |-> 9100, bin |-> "Yellow Recycling Bin",
      tips |-> <<"Clean thoroughly", "Separate different metal types">>],
     [type |-> "E-waste", confidence |-> 8600, bin |-> "Special E-waste Collection",
      tips |-> <<"Take to designated e-waste center", "Remove batteries separately">>] >>

getEnvironmentalImpact(wasteType) ==
  CASE wasteType = "Plastic" -> "Proper recycling saves 1.5 tons of CO2 per ton of plastic"
    [] wasteType = "Paper" -> "Recycling saves 60% of energy compared to new paper production"
    [] wasteType = "Glass" -> "100% recyclable - saves 315kg of CO2 per ton recycled"
    [] wasteType = "Metal" -> "Recycling aluminum saves 95% of energy vs. new production"
    [] wasteType = "Organic" -> "Composting reduces methane emissions by 50%"
    [] wasteType = "E-waste" -> "Proper disposal prevents toxic materials from landfills"
    [] OTHER -> "Proper disposal helps protect the environment"

\* getNextEmptyingTime with its first threshold at 80
getNextEmptyingTimeAt80(fullnessLevel) ==
  IF fullnessLevel >= 80 THEN "Immediate"
  ELSE IF fullnessLevel >= 70 THEN "Within 1-2 days"
  ELSE IF fullnessLevel >= 50 THEN "Within 3-5 days"
  ELSE "Within 1-2 weeks"

getNextEmptyingTime(fullnessLevel) ==
  IF fullnessLevel >= 85 THEN "Immediate"
  ELSE IF fullnessLevel >= 70 THEN "Within 1-2 days"
  ELSE IF fullnessLevel >= 50 THEN "Within 3-5 days"
  ELSE "Within 1-2 weeks"

\* Math.round(n * 0.5) for an integer n >= 0: halves round up
RoundHalf(n) == (n + 1) \div 2

\* performMockAnalysis(type, fileName) with r the value Math.random() returns;
\* fileName is not read; fullnessLevel is stored in hundredths
performMockAnalysis(type, r) ==
  IF type = "segregation"
  THEN LET randomWaste == MockWasteTypes[FloorRandom(r, Len(MockWasteTypes)) + 1]
       IN [wasteType |-> randomWaste.type,
           confidence |-> randomWaste.confidence,
           recommendedBin |-> randomWaste.bin,
           disposalTips |-> randomWaste.tips,
           environmentalImpact |-> getEnvironmentalImpact(randomWaste.type),
           recyclable |-> randomWaste.type # "Organic"]
  ELSE LET fullnessLevel == FloorRandom(r, 100)
           band == IF fullnessLevel >= 85 THEN 1
                   ELSE IF fullnessLevel >= 70 THEN 2
                   ELSE IF fullnessLevel >= 50 THEN 3 ELSE 4
       IN [fullnessLevel |-> fullnessLevel * 100,
           status |-> <<"Critical - Needs Immediate Emptying", "Nearly Full", "Half Full",
                        "Low Level">>[band],
           action |-> <<"Empty immediately to prevent overflow",
                        "Schedule emptying within 24 hours", "Monitor and plan emptying",
                        "No immediate action required">>[band],
           urgency |-> <<"high", "medium", "medium", "low">>[band],
           estimatedCapacity |-> <<RoundHalf(100 - fullnessLevel), " liters remaining">>,
           nextEmptyingRecommendation |-> getNextEmptyingTime(fullnessLevel),
           wasteVolume |-> <<RoundHalf(fullnessLevel), " liters">>]

\* the response of the mock POST to a form, with r its Math.random() draw
MockResponse(form, r) ==
  IF ~form.parsed THEN Json(500, [error |-> "Failed to analyze image"])
  ELSE IF ~FieldTruthy(form.file) THEN Json(400, [error |-> "No file uploaded"])
  ELSE IF ~FieldTruthy(form.type) \/ form.type \notin ValidTypes
    THEN Json(400, [error |-> "Invalid analysis type"])
  ELSE IF form.file \notin Files THEN Json(500, [error |-> "Failed to analyze image"])
  ELSE Json(200, [success |-> TRUE, fileName |-> form.file.name, fileSize |-> form.file.size,
                  analysisType |-> form.type.str,
                  result |-> performMockAnalysis(form.type.str, r)])

\* one invocation of the mock POST, from request to response: it awaits nothing
\* outside itself and keeps nothing, so only the last invocation is held
MockPOST(form, r) ==
  /\ reqs' = << [NewReq(form, 0) EXCEPT !.st = "responded", !.resp = MockResponse(form, r)] >>
  /\ UNCHANGED <<page, selectedOption, uploadedFile, isAnalyzing, analysisResult, calls,
                 lastOutcome, bar>>

(* ---------------- the ProgressBar component of part_000 --------------- *)

\* Math.min and Math.max of two integers
MathMin(a, b) == IF a < b THEN a ELSE b
MathMax(a, b) == IF a > b THEN a ELSE b

\* the props: percentage is a plain integer here; color and showLabel have
\* defaults; an absent label is Undefined
Percentages == (0 - PercentageSpan)..(100 + PercentageSpan)
Colors == {"green", "red"}
Labels == {Undefined, Str("Fill Level")}
ColorClasses(color) == IF color = "green" THEN "bg-green-600" ELSE "bg-red-600"
TextColorClasses(color) ==
  IF color = "green" THEN "text-green-700 dark:text-green-300"
  ELSE "text-red-700 dark:text-red-300"

\* BarWidth without the clamp
BarWidthUnclamped(percentage) == <<percentage, "%">>

\* style.width of the inner bar: `${Math.min(100, Math.max(0, percentage))}%`
BarWidth(percentage) == <<MathMin(100, MathMax(0, percentage)), "%">>

\* the label row: the label text and {percentage}%, or nothing without showLabel
LabelRow(percentage, color, showLabel, label) ==
  IF showLabel
  THEN << [text |-> IF Truthy(label) THEN label.str ELSE "Progress",
           number |-> <<percentage, "%">>,
           class |-> TextColorClasses(color)] >>
  ELSE <<>>

\* one rendering of the component
ProgressBar(percentage, color, showLabel, label) ==
  /\ bar' = [percentage |-> percentage, showLabel |-> showLabel,
             labelRow |-> LabelRow(percentage, color, showLabel, label),
             class |-> ColorClasses(color),
             width |-> BarWidth(percentage)]
  /\ UNCHANGED <<page, selectedOption, uploadedFile, isAnalyzing, analysisResult, calls,
                 lastOutcome, reqs>>

(* --------------------------- specification ---------------------------- *)

Init ==
  /\ page \in Pages
  /\ selectedOption = NoOption
  /\ uploadedFile = Null
  /\ isAnalyzing = FALSE
  /\ analysisResult = Null
  /\ calls = <<>>
  /\ lastOutcome = "none"
  /\ reqs = <<>>
  /\ bar = Null

\* one browser session: the page, the relay serving it, the external service
Next ==
  \/ \E m \in Options : SetSelectedOption(m)
  \/ \E f \in Files \cup {Null} : HandleFileUpload(f)
  \/ ResetUpload
  \/ AnalyzeClick
  \/ \E c \in DOMAIN calls : AnalyzeImageResponse(c)
  \/ \E c \in DOMAIN calls : AnalyzeImageReject(c)
  \/ \E r \in DOMAIN reqs : RelayHandle(r)
  \/ \E r \in DOMAIN reqs, up \in UpOutcomes : RelaySettle(r, up)

Spec == Init /\ [][Next]_vars

\* the session with analyzeImage callable in every state: the handlers by
\* themselves, without the conditions under which their buttons are rendered
NextCall ==
  \/ Next
  \/ AnalyzeImageCall

SpecCall == Init /\ [][NextCall]_vars

\* the mock relay alone, serving any client's requests
NextMock ==
  \E form \in Forms, r \in MockDraws : MockPOST(form, r)

SpecMock == Init /\ [][NextMock]_vars

\* the ProgressBar component rendered with any props
NextBar ==
  \E percentage \in Percentages, color \in Colors, showLabel \in BOOLEAN, label \in Labels :
    ProgressBar(percentage, color, showLabel, label)

SpecBar == Init /\ [][NextBar]_vars

\* the relay alone, serving any client's requests
NextRelay ==
  \/ \E form \in Forms : DirectPost(form)
  \/ \E r \in DOMAIN reqs : RelayHandle(r)
  \/ \E r \in DOMAIN reqs, up \in UpOutcomes : RelaySettle(r, up)

SpecRelay == Init /\ [][NextRelay]_vars

(* ------------------------------ claims ------------------------------- *)

Pending == {c \in DOMAIN calls : calls[c].st = "pending"}
Settles(c) == calls[c].st = "pending" /\ calls'[c].st = "done"
Responded == {r \in DOMAIN reqs : reqs[r].st = "responded"}

\* C1: every analyzeImage invocation, whatever the relay's outcome, ends in
\* phase resultReady with a result held.
C1_EndsResultReady ==
  [][\A c \in DOMAIN calls :
       Settles(c) => (Phase' = "resultReady" /\ Truthy(analysisResult'))]_vars

\* C2: resetUpload leaves the controller in its initial state, in every phase.
C2_ResetIsInitial ==
  [][ResetUpload =>
       (selectedOption' = NoOption /\ uploadedFile' = Null /\ Phase' = "idle"
          /\ analysisResult' = Null)]_vars

\* C3: the result is cleared whenever the file or the mode changes, and it is set
\* again only by the settling of an invocation issued for the current file and mode.
C3_ResultClearedOnChange ==
  [][/\ (selectedOption' # selectedOption \/ uploadedFile' # uploadedFile)
          => analysisResult' = Null
     /\ (analysisResult' # analysisResult /\ Truthy(analysisResult'))
          => \E c \in DOMAIN calls :
               Settles(c) /\ calls[c].file = uploadedFile /\ calls[c].option = selectedOption
    ]_vars

\* C4: at most one invocation, and one relay request, is in flight; while one is,
\* the page is analyzing and offers no trigger, and no step issues another.
C4_SingleInFlight ==
  /\ Cardinality(Pending) <= 1
  /\ Cardinality({r \in DOMAIN reqs : reqs[r].st # "closed"}) <= 1
  /\ Pending # {} => (isAnalyzing /\ ~AnalyzeButtonShown)

C4_Witness ==
  /\ Pending # {} /\ isAnalyzing
  /\ Truthy(uploadedFile) /\ selectedOption # NoOption /\ ~Truthy(analysisResult)
  /\ Len(calls) < MaxCalls

\* the mode of a parsed form is one of the two the relay recognizes
ModeRecognized(form) ==
  Has(form.type, "str") /\ form.type.str \in {"segregation", "fullness"}
Rejected400(r) ==
  /\ reqs[r].upCalls = 0
  /\ reqs[r].st # "upstream"
  /\ reqs[r].st = "responded" => (reqs[r].resp.status = 400 /\ "error" \in DOMAIN reqs[r].resp.body)

\* C5: a request whose mode is missing or unrecognized is answered 400 with an
\* error body and never reaches the external endpoint.
C5_InvalidModeRejected ==
  \A r \in DOMAIN reqs :
    (reqs[r].form.parsed /\ ~ModeRecognized(reqs[r].form)) => Rejected400(r)

C5_Witness ==
  \E r \in Responded :
    reqs[r].form.file \in Files /\ reqs[r].form.type = Str("unknown") /\ reqs[r].resp.status = 400

\* C6: a request with no file field is answered 400 with an error body and never
\* reaches the external endpoint, whatever its mode.
C6_MissingFileRejected ==
  \A r \in DOMAIN reqs :
    (reqs[r].form.parsed /\ reqs[r].form.file = Null) => Rejected400(r)

C6_Witness ==
  \E r \in Responded :
    reqs[r].form.file = Null /\ ModeRecognized(reqs[r].form) /\ reqs[r].resp.status = 400

UpstreamFailed(r) ==
  reqs[r].up.kind = "netfail" \/ (reqs[r].up.kind = "answer" /\ ~Ok(reqs[r].up.status))

\* C7: when the external call fails (rejected fetch or non-2xx), the relay has made
\* exactly one external call and answers 500 with error and details.
C7_UpstreamFailureIs500 ==
  \A r \in Responded :
    UpstreamFailed(r) =>
      /\ reqs[r].upCalls = 1
      /\ reqs[r].resp.status = 500
      /\ {"error", "details"} \subseteq DOMAIN reqs[r].resp.body

C7_Witness ==
  \E r \in Responded :
    reqs[r].up.kind = "answer" /\ reqs[r].up.status = 404 /\ reqs[r].resp.status = 500

\* a result marked as not a real analysis by its status or its message
DegradedFlagged(res) ==
  /\ Truthy(res)
  /\ \/ Has(res, "status") /\ res.status = "Error"
     \/ Has(res, "message")
          /\ res.message \in {"Analysis failed, showing mock data for segregation.",
                               "Analysis failed, showing mock data for fullness check."}

\* C8: when the call to the relay fails (transport error or non-2xx), the result
\* stored is a fallback flagged as degraded/mock.
C8_FallbackFlagged ==
  [][\A c \in DOMAIN calls :
       (Settles(c) /\ lastOutcome' \in {"http", "transport"})
         => DegradedFlagged(analysisResult')]_vars

\* C9: in every displayed fullness result the alert is shown exactly when the
\* fill level is at least 90.
C9_AlertIffNinety ==
  FullnessPanelShown => (AlertBannerShown <=> analysisResult.bin_level >= 9000)

FieldsOf(body) == IF Truthy(body) THEN DOMAIN body ELSE {}
Upstream2xx(r) == reqs[r].up.kind = "answer" /\ Ok(reqs[r].up.status)

\* C10 as stated: on a 2xx upstream response the relay answers 200 with every
\* upstream field unchanged and fileName, fileSize, analysisType those of the
\* inbound request, for every upstream body.
C10_Original ==
  \A r \in Responded :
    Upstream2xx(r) =>
      /\ reqs[r].resp.status = 200
      /\ \A k \in FieldsOf(reqs[r].up.body) : reqs[r].resp.body[k] = reqs[r].up.body[k]
      /\ reqs[r].resp.body.fileName = reqs[r].form.file.name
      /\ reqs[r].resp.body.fileSize = reqs[r].form.file.size
      /\ reqs[r].resp.body.analysisType = reqs[r].form.type.str

InboundMeta(form) ==
  [fileName |-> form.file.name, fileSize |-> form.file.size, analysisType |-> form.type.str]

\* C10 amended: on a 2xx upstream response whose body is a JSON object the relay
\* answers 200 with every upstream field unchanged, and with each of fileName,
\* fileSize, analysisType that the upstream body does not itself carry equal to
\* the inbound file's name, its size and the inbound mode.
C10_UpstreamFieldsWin ==
  \A r \in Responded :
    (Upstream2xx(r) /\ reqs[r].up.json /\ Truthy(reqs[r].up.body)) =>
      /\ reqs[r].resp.status = 200
      /\ \A k \in DOMAIN reqs[r].up.body : reqs[r].resp.body[k] = reqs[r].up.body[k]
      /\ \A k \in DOMAIN InboundMeta(reqs[r].form) \ DOMAIN reqs[r].up.body :
           reqs[r].resp.body[k] = InboundMeta(reqs[r].form)[k]

C10_Witness ==
  \E r, q \in Responded :
    /\ reqs[r].up.kind = "answer" /\ reqs[r].up.body = BodyCollide
    /\ reqs[r].resp.status = 200 /\ reqs[r].resp.body.fileName = "evil.png"
    /\ reqs[q].up.kind = "answer" /\ reqs[q].up.body = BodyBinAlert
    /\ reqs[q].resp.status = 200 /\ reqs[q].resp.body.fileName = reqs[q].form.file.name

\* the position of a character in the alphabet, from 0
SextetOf(ch) == (CHOOSE i \in DOMAIN Alphabet : Alphabet[i] = ch) - 1

\* the bytes a base64 text stands for
RECURSIVE Base64Decode(_)
Base64Decode(text) ==
  IF Len(text) < 4 THEN <<>>
  ELSE LET v(i) == IF text[i] = Pad THEN 0 ELSE SextetOf(text[i])
           n == v(1) * 262144 + v(2) * 4096 + v(3) * 64 + v(4)
           group == << n \div 65536, (n \div 256) % 256, n % 256 >>
           kept == IF text[3] = Pad THEN 1 ELSE IF text[4] = Pad THEN 2 ELSE 3
       IN SubSeq(group, 1, kept) \o Base64Decode(SubSeq(text, 5, Len(text)))

\* a request with a file and a recognized mode
Accepted(r) == reqs[r].form.parsed /\ reqs[r].form.file \in Files /\ ModeRecognized(reqs[r].form)

\* C11: every accepted request, once handled, has caused exactly one outbound JSON
\* request to the fixed endpoint, whose analysis_type is the inbound mode and whose
\* image decodes from base64 to the bytes of the inbound file.
C11_OneOutboundRequest ==
  \A r \in DOMAIN reqs :
    (Accepted(r) /\ reqs[r].st \in {"upstream", "responded"}) =>
      /\ reqs[r].upCalls = 1
      /\ reqs[r].out.url = EXTERNAL_API_ENDPOINT
      /\ reqs[r].out.contentType = "application/json"
      /\ reqs[r].out.body.analysis_type = reqs[r].form.type.str
      /\ Len(reqs[r].out.body.image) % 4 = 0
      /\ Base64Decode(reqs[r].out.body.image) = reqs[r].form.file.bytes

C11_Witness ==
  \E r \in Responded :
    /\ reqs[r].form.file = FileB /\ reqs[r].form.type = Str("fullness")
    /\ reqs[r].out.body.image = <<"A", "w", "=", "=">>
    /\ reqs[r].upCalls = 1

\* the values an object carries under any of the given field names
Carried(obj, names) == IF Truthy(obj) THEN {obj[k] : k \in names \cap DOMAIN obj} ELSE {}

FillNames == {"fullnessLevel", "fill_percentage", "bin_level"}
CategoryNames == {"wasteType", "segregated_category"}

\* what a relay response supplies, at its top level or under result
Supplied(data, names) == Carried(data, names) \cup Carried(Get(data, "result"), names)

\* C12: after a successful relay call the result carries, in the field the page
\* reads, the fill percentage and the category that the payload supplied under
\* any of their historical names, and carries nothing where none was supplied.
C12_SchemasReconciled ==
  [][\A c \in DOMAIN calls :
       (Settles(c) /\ lastOutcome' = "ok") =>
         LET data == reqs[calls[c].req].resp.body
         IN /\ Carried(analysisResult', {FillField(page)}) = Supplied(data, FillNames)
            /\ Carried(analysisResult', {CategoryField(page)}) = Supplied(data, CategoryNames)
    ]_vars

\* C13: in fullness mode with a file picked, a relay call whose upstream answered
\* 2xx with bin_level b and alert true ends in resultReady with fill level b,
\* rendered as b to one decimal followed by "% Full", and the alert banner shown.
C13_FullnessEndToEnd ==
  [][\A c \in DOMAIN calls :
       LET up == reqs[calls[c].req].up
       IN (/\ Settles(c) /\ lastOutcome' = "ok"
           /\ selectedOption = "fullness" /\ Truthy(uploadedFile)
           /\ Has(up.body, "bin_level") /\ Has(up.body, "alert") /\ up.body.alert)
          => /\ Phase' = "resultReady"
             /\ Carried(analysisResult', {"bin_level"}) = {up.body.bin_level}
             /\ FillLabel' = <<ToFixed(up.body.bin_level), "% Full">>
             /\ AlertBannerShown'
    ]_vars

\* the request was refused for a missing file or an invalid mode
FileMissingOrModeInvalid(form) ==
  form.parsed /\ (~FieldTruthy(form.file) \/ ~ModeRecognized(form))

StatusAsClaimed(r) ==
  LET q == reqs[r]
  IN /\ q.resp.status \in {200, 400, 500}
     /\ q.resp.status = 200 <=> (Upstream2xx(r) /\ q.up.json)
     /\ q.resp.status = 400 <=> FileMissingOrModeInvalid(q.form)
     /\ q.resp.status = 500 => {"error", "details"} \subseteq DOMAIN q.resp.body
     /\ q.resp.status = 200 => q.upCalls = 1

\* C14: a relay invocation answers once, with 200, 400 or 500: 200 exactly after
\* a 2xx upstream answer with a JSON body, 400 exactly for a missing file or an
\* invalid mode, 500 with error and details for everything else (unparsable
\* request body, upstream failure, non-JSON 2xx body); no response is produced
\* before the handler ends and a response, once given, never changes.
C14_OneResponse ==
  /\ [](\A r \in DOMAIN reqs :
          IF reqs[r].st = "responded" THEN StatusAsClaimed(r)
          ELSE reqs[r].resp = NoResp)
  /\ [][\A r \in DOMAIN reqs : reqs[r].st = "responded" => reqs'[r] = reqs[r]]_vars

C14_Witness ==
  \E r1, r2 \in Responded :
    /\ ~reqs[r1].form.parsed /\ reqs[r1].resp.status = 500
    /\ reqs[r2].up.kind = "answer" /\ reqs[r2].up.status = 200 /\ ~reqs[r2].up.json
    /\ reqs[r2].resp.status = 500

\* C15: the controller leaves analyzing only in a step that completes the
\* pending relay call (no file pick, mode pick, reset or further trigger does),
\* and a completion that carries a relay response comes only after the external
\* service has answered the relay: without that answer it stays analyzing.
C15_AnalyzingUntilCompletion ==
  [][/\ (isAnalyzing /\ ~isAnalyzing') => \E c \in Pending : Settles(c)
     /\ \A c \in Pending :
          (Settles(c) /\ lastOutcome' # "transport") =>
            /\ reqs[calls[c].req].st = "responded"
            /\ reqs[calls[c].req].up.kind # "none"
    ]_vars

\* analyzing survives a reset while the external service has not answered
C15_Witness ==
  /\ isAnalyzing /\ selectedOption = NoOption /\ uploadedFile = Null
  /\ \E c \in Pending : reqs[calls[c].req].st = "upstream"

\* the response of a request handled with no other request in the system
RespAlone(form, up) ==
  IF POSTBeforeFetch(form).status # NoResp.status THEN POSTBeforeFetch(form)
  ELSE POSTAfterFetch(form, up)

C17_TriggerNeedsFileAndMode ==
  [][(isAnalyzing' /\ ~isAnalyzing) \/ Len(calls') > Len(calls) \/ Len(reqs') > Len(reqs)
       => /\ Truthy(uploadedFile) /\ selectedOption # NoOption
          /\ Len(calls') = Len(calls) + 1 /\ Len(reqs') = Len(reqs) + 1
          /\ calls'[Len(calls')].file = uploadedFile
          /\ reqs'[Len(reqs')].form.type = Str(selectedOption)
    ]_vars

\* a state in which a call of analyzeImage meets the guard: a mode but no file
C17_Witness ==
  /\ selectedOption # NoOption /\ ~Truthy(uploadedFile)
  /\ Len(calls) = 1 /\ calls[1].st = "done"

\* C18: the mode is set only from unset, only in phase idle, and the result is
\* none right after; it never goes from one mode to the other in one step.
C18_SelectModeOnlyIdle ==
  [][(selectedOption' # selectedOption /\ selectedOption' # NoOption)
       => /\ selectedOption = NoOption
          /\ Phase = "idle"
          /\ ~Truthy(analysisResult')
    ]_vars

\* C19: the confidence shown is a percentage between 0 and 100, and a stored
\* confidence that is a fraction between 0 and 1 is shown multiplied by 100.
C19_ConfidenceIsPercentage ==
  \A shown \in ConfidenceShown :
    /\ shown \in 0..10000
    /\ analysisResult.confidence \in 0..100 => shown = analysisResult.confidence * 100

\* C20: whenever there is a result, there is a selected file and a mode, also
\* when the outcome of a call arrives after a reset.
C20_ResultHasFileAndMode ==
  Truthy(analysisResult) => (Truthy(uploadedFile) /\ selectedOption # NoOption)

\* C21: a result is stored only by the call that was issued for the file and
\* the mode that are selected at the moment of storing: the outcome of a call
\* issued for an earlier file or mode is never stored as the current result.
C21_ResultOfCurrentSelection ==
  [][\A c \in DOMAIN calls :
       (Settles(c) /\ Truthy(analysisResult')) =>
         (calls[c].file = uploadedFile /\ calls[c].option = selectedOption)
    ]_vars

\* C22: the Analyze button is offered only with a file, a mode, no call in
\* flight and no result; a call starts only from a state with no result, and a
\* held result is cleared only by a file pick or a reset.
C22_TriggerOffered ==
  /\ [](AnalyzeButtonShown =>
          /\ Truthy(uploadedFile) /\ selectedOption # NoOption
          /\ ~isAnalyzing /\ Pending = {}
          /\ ~Truthy(analysisResult))
  /\ [][/\ Len(calls') > Len(calls) => ~Truthy(analysisResult)
        /\ (Truthy(analysisResult) /\ ~Truthy(analysisResult')) =>
             /\ calls' = calls
             /\ \/ uploadedFile' \in Files /\ selectedOption' = selectedOption
                \/ uploadedFile' = Null /\ selectedOption' = NoOption
       ]_vars

\* the button is offered again after a result was held and then cleared
C22_Witness ==
  /\ AnalyzeButtonShown /\ page = "part_001"
  /\ Len(calls) = 1 /\ lastOutcome = "ok"

\* C23: a file-pick event with no file changes nothing; one with a file sets
\* the selected file to it and the result to none, and leaves the mode, the
\* analyzing flag and the calls in flight as they are.
C23_FilePickFrame ==
  [][\A f \in Files \cup {Null} :
       HandleFileUpload(f) =>
         /\ UNCHANGED <<selectedOption, isAnalyzing, calls, reqs>>
         /\ IF f = Null THEN UNCHANGED <<uploadedFile, analysisResult>>
            ELSE uploadedFile' = f /\ analysisResult' = Null
    ]_vars

\* a file was picked during analysis: another file selected, still analyzing
C23_Witness ==
  /\ isAnalyzing /\ analysisResult = Null
  /\ \E c \in Pending :
       /\ uploadedFile \in Files /\ uploadedFile # calls[c].file
       /\ selectedOption = calls[c].option

\* C24: for every integer percentage, below 0 and above 100 included, the bar's
\* width is 0 below 0, 100 above 100 and the percentage itself in between, so
\* always within 0..100, while the label, when rendered, shows the percentage
\* as given.
C24_WidthClamped ==
  bar # Null =>
    /\ bar.width[1] \in 0..100
    /\ bar.width[2] = "%"
    /\ bar.percentage < 0 => bar.width[1] = 0
    /\ bar.percentage > 100 => bar.width[1] = 100
    /\ bar.percentage \in 0..100 => bar.width[1] = bar.percentage
    /\ bar.showLabel => (Len(bar.labelRow) = 1 /\ bar.labelRow[1].number = <<bar.percentage, "%">>)

\* a bar rendered for a percentage above 100, with its label
C24_Witness ==
  bar # Null /\ bar.percentage = 103 /\ bar.showLabel /\ bar.width[1] = 100

\* the mock results of the fullness mode held in responses
MockFullness ==
  {reqs[r].resp.body.result : r \in {q \in Responded :
      reqs[q].resp.status = 200 /\ reqs[q].resp.body.analysisType = "fullness"}}

\* C25: every fullnessLevel of performMockAnalysis is an integer in 0..99;
\* urgency is high exactly from 85, medium exactly from 50 to 84 and low
\* below 50; the recommendation is Immediate exactly when urgency is high and
\* Within 1-2 weeks exactly when it is low.
C25_UrgencyThresholds ==
  \A res \in MockFullness :
    /\ res.fullnessLevel % 100 = 0
    /\ res.fullnessLevel \div 100 \in 0..99
    /\ res.urgency \in {"high", "medium", "low"}
    /\ res.urgency = "high" <=> res.fullnessLevel >= 8500
    /\ res.urgency = "medium" <=> (res.fullnessLevel >= 5000 /\ res.fullnessLevel < 8500)
    /\ res.urgency = "low" <=> res.fullnessLevel < 5000
    /\ res.nextEmptyingRecommendation = "Immediate" <=> res.urgency = "high"
    /\ res.nextEmptyingRecommendation = "Within 1-2 weeks" <=> res.urgency = "low"

\* the mock analysis at the lowest level that is high
C25_Witness ==
  \E res \in MockFullness :
    /\ res.fullnessLevel = 8500 /\ res.urgency = "high"
    /\ res.nextEmptyingRecommendation = "Immediate"

====
